---- MODULE Spec2Model ----
(***************************************************************************)
(* TRacers: the intervention orchestrator (backend/ioa.py, backend/agent.py)*)
(* and the decision aggregator (backend/agents/coordinator.py,             *)
(* irreversibility_arbiter.py, ethics_agent.py).                           *)
(*                                                                         *)
(* Risks, confidences and uncertainties are per-mille integers             *)
(* (0.65 is 650); the weights of _calculate_aggregate_risk are hundredths  *)
(* (0.25 is 25).  An aggregate risk is carried as the exact fraction       *)
(* num/den, so that a threshold comparison is a cross-multiplication.      *)
(***************************************************************************)
EXTENDS Integers, Sequences, FiniteSets, TLC

(***************************************************************************)
(* Bounds of the model.                                                    *)
(***************************************************************************)
NumStudents == 1      \* individuals known to the orchestrator
MaxCalls == 3         \* create_intervention_plan, execute_action and
                      \* verify_outcome calls in one behaviour of Spec
MaxRetryCalls == 5    \* execute_action calls in one behaviour of SpecExec
MaxEvents == 2        \* events in a list handed to a pipeline or a scorer
MaxConcurrent == 1    \* execute_action calls in flight at one time
NumRequests == 2      \* requests for the dashboard in one behaviour
MaxMessages == 1      \* messages in one session's history
MaxHandlers == 1      \* open student websockets of one session id

Students == 1..NumStudents

(***************************************************************************)
(* Enumerations of backend/agent.py.                                       *)
(***************************************************************************)
AgentStatus ==
    {"idle", "observing", "planning", "executing", "waiting_approval",
     "verifying", "completed", "failed"}

InterventionType ==
    {"financial_aid", "peer_support", "counselor_chat", "academic_support",
     "document_assistance", "scholarship_match", "fee_extension",
     "emergency_escalation"}

InterventionStatus ==
    {"planned", "pending_approval", "approved", "rejected", "in_progress",
     "completed", "failed", "cancelled"}

ActionStatus == {"pending", "executing", "completed", "failed", "skipped"}

\* Column defaults of AgentAction.
DefaultRetryCount == 0
DefaultMaxRetries == 3

\* The value of an Integer primary key / foreign key that holds no row:
\* None.  Rows are numbered from 1 in the order of their commit.
NoId == 0

(***************************************************************************)
(* Constants of InterventionOrchestratorAgent.                             *)
(***************************************************************************)
RiskReductionTarget == 300    \* success_metrics['risk_reduction_target']
EscalationRisk == 700         \* escalation_needed = risk_after > 0.7
NumGoals == 3                 \* len(goals_achieved)

\* current_risk values an observation reports (Analysis.confidence): the
\* ones a plan is created at, and the ones verification observes.
PlanningRisks == {800}
ObservedRisks == {500, 800}
RiskTrends == {"increasing", "stable", "decreasing"}

\* What a delegated capability does with one invocation.
DelegateOutcomes == {"success", "failure", "exception"}

VARIABLES
    sessions,   \* table agent_sessions: Seq of rows, id = position
    plans,      \* table intervention_plans
    actions,    \* table agent_actions
    outcomes,   \* table intervention_outcomes
    running,    \* per action: execute_action invocations between the
                \* first commit (line 456) and the last (line 488)
    attempts,   \* per action: execute_action invocations started so far
    verifications,  \* per plan: verify_outcome invocations so far
    decision,   \* the value returned by the last aggregator call
    request,    \* the arguments of that call
    COORDINATOR_INSTANCE,   \* routes/student.py: the module's global
    constructed,    \* CoordinatorAgentML() constructions completed so far
    pc,             \* per caller of get_coordinator_singleton: its position
    local,          \* per caller: the instance it constructed
    coordinator,    \* per caller: the value the call returned
    active_sessions,    \* CounselorChatManager: session ids with a websocket
    active_counselors,  \* counselor ids with a websocket
    session_metadata,   \* session id -> metadata
    message_history,    \* session id -> messages
    handlers,       \* per session id: student websocket handlers in their loop
    chat_call       \* the last call on the manager, and what it sent out

orchVars == <<sessions, plans, actions, outcomes, running, attempts, verifications>>
aggVars == <<decision, request>>
singletonVars == <<COORDINATOR_INSTANCE, constructed, pc, local, coordinator>>
chatVars == <<active_sessions, active_counselors, session_metadata,
              message_history, handlers, chat_call>>
serviceVars == <<singletonVars, chatVars>>
vars == <<sessions, plans, actions, outcomes, running, attempts, verifications,
          decision, request, COORDINATOR_INSTANCE, constructed, pc, local,
          coordinator, active_sessions, active_counselors, session_metadata,
          message_history, handlers, chat_call>>

\* sum() of a list of numbers.
RECURSIVE SeqSum(_)
SeqSum(q) == IF q = <<>> THEN 0 ELSE Head(q) + SeqSum(Tail(q))

(***************************************************************************)
(* generate_hypotheses: the hypotheses, in the order they are appended.    *)
(* The social-isolation pattern is always present (_detect_patterns sets   *)
(* no_peer_chats to True unconditionally).                                 *)
(***************************************************************************)
FinancialHypothesis ==
    [cause |-> "Financial Stress", confidence |-> 800,
     intervention_types |-> {"financial_aid", "scholarship_match", "fee_extension"}]
AcademicHypothesis ==
    [cause |-> "Academic Overload", confidence |-> 700,
     intervention_types |-> {"academic_support", "peer_support"}]
SocialHypothesis ==
    [cause |-> "Social Isolation", confidence |-> 600,
     intervention_types |-> {"peer_support", "counselor_chat"}]

generate_hypotheses(financial_stress, academic_pressure) ==
    (IF financial_stress THEN <<FinancialHypothesis>> ELSE <<>>)
    \o (IF academic_pressure THEN <<AcademicHypothesis>> ELSE <<>>)
    \o <<SocialHypothesis>>

\* max(hypotheses, key=confidence): the first hypothesis of greatest
\* confidence.
TopHypothesis(hypotheses) ==
    LET best == CHOOSE i \in 1..Len(hypotheses) :
                  /\ \A j \in 1..Len(hypotheses) :
                        hypotheses[j].confidence <= hypotheses[i].confidence
                  /\ \A j \in 1..(i - 1) :
                        hypotheses[j].confidence < hypotheses[i].confidence
    IN hypotheses[best]

(***************************************************************************)
(* _create_action_sequence.  The AgentAction objects are built in a local  *)
(* list and added to the database only at the end (lines 442-445), so at   *)
(* line 437 the first action has no primary key yet: actions[0].id is      *)
(* None, and that is the value stored in depends_on_action_id.             *)
(***************************************************************************)
NewAction(plan_id, action_type, delegated_to, order, depends_on) ==
    [plan_id |-> plan_id,
     action_type |-> action_type,
     sequence_order |-> order,
     delegated_to |-> delegated_to,
     status |-> "pending",
     retry_count |-> DefaultRetryCount,
     max_retries |-> DefaultMaxRetries,
     depends_on_action_id |-> depends_on]

\* The id of an AgentAction that was constructed but not yet flushed.
TransientId == NoId

\* Gives sequence_order i to the i-th element: `sequence' starts at 1 and
\* is incremented with every append.
Numbered(templates, plan_id) ==
    [i \in 1..Len(templates) |->
        NewAction(plan_id, templates[i][1], templates[i][2], i, NoId)]

_create_action_sequence(plan_id, hypothesis) ==
    LET types == hypothesis.intervention_types
        templates ==
            (IF "counselor_chat" \in types
                THEN <<(<<"counselor_chat", "counselor_chat_agent">>)>> ELSE <<>>)
            \o (IF "financial_aid" \in types
                THEN <<(<<"fee_extension", "document_agent">>),
                       (<<"scholarship_match", "scholarship_agent">>)>> ELSE <<>>)
            \o (IF "peer_support" \in types
                THEN <<(<<"peer_support", "peer_match_agent">>)>> ELSE <<>>)
            \o (IF "academic_support" \in types
                THEN <<(<<"academic_support", "academic_support_agent">>)>> ELSE <<>>)
        acts == Numbered(templates, plan_id)
        final == NewAction(plan_id, "emergency_escalation", "escalation_agent",
                           Len(acts) + 1,
                           IF Len(acts) > 0 THEN TransientId ELSE NoId)
    IN acts \o <<final>>

(***************************************************************************)
(* create_intervention_plan: a new session in PLANNING, a new plan that    *)
(* waits for approval, and the plan's actions.  Nothing is looked up       *)
(* before the rows are created.                                            *)
(***************************************************************************)
create_intervention_plan(student_id, current_risk, financial_stress, academic_pressure) ==
    /\ LET hypotheses == generate_hypotheses(financial_stress, academic_pressure)
           top == TopHypothesis(hypotheses)
           session_id == Len(sessions) + 1
           plan_id == Len(plans) + 1
           new == _create_action_sequence(plan_id, top)
       IN /\ sessions' = Append(sessions,
                 [student_id |-> student_id,
                  status |-> "planning",
                  current_risk_score |-> current_risk,
                  completed_at |-> FALSE])
          /\ plans' = Append(plans,
                 [session_id |-> session_id,
                  student_id |-> student_id,
                  primary_cause |-> top.cause,
                  requires_approval |-> TRUE,
                  approval_status |-> "pending_approval",
                  approved_by |-> NoId,
                  completed_at |-> FALSE])
          /\ actions' = actions \o new
          /\ running' = running \o [i \in 1..Len(new) |-> 0]
          /\ attempts' = attempts \o [i \in 1..Len(new) |-> 0]
          /\ verifications' = Append(verifications, 0)
    /\ UNCHANGED <<outcomes, aggVars, serviceVars>>

(***************************************************************************)
(* execute_action, in its two commits.  The first sets the action to       *)
(* EXECUTING (lines 454-456) whatever the action's status, its plan's      *)
(* approval, its depends_on_action_id or its retry_count; the second       *)
(* (lines 458-488) records what the delegate did.                          *)
(***************************************************************************)
execute_action_begin(a) ==
    /\ actions' = [actions EXCEPT ![a].status = "executing"]
    /\ running' = [running EXCEPT ![a] = @ + 1]
    /\ attempts' = [attempts EXCEPT ![a] = @ + 1]
    /\ UNCHANGED <<sessions, plans, outcomes, verifications, aggVars, serviceVars>>

\* Lines 476-486: the status and retry_count an action has after the
\* delegate returned a result or raised.
AfterDelegate(action, outcome) ==
    CASE outcome = "success" ->
            [action EXCEPT !.status = "completed"]
      [] outcome = "failure" ->
            [action EXCEPT !.status = "failed"]
      [] outcome = "exception" ->
            [action EXCEPT !.status = "failed",
                           !.retry_count = @ + 1]

\* execute_action's second commit, were a failed delegate to fail the
\* action's session as well.
execute_action_end_failing_session(a, outcome) ==
    /\ running[a] > 0
    /\ actions' = [actions EXCEPT ![a] = AfterDelegate(@, outcome)]
    /\ running' = [running EXCEPT ![a] = @ - 1]
    /\ sessions' = IF outcome = "success" THEN sessions
                   ELSE [sessions EXCEPT ![plans[actions[a].plan_id].session_id].status
                                            = "failed"]
    /\ UNCHANGED <<plans, outcomes, attempts, verifications, aggVars, serviceVars>>

execute_action_end(a, outcome) ==
    /\ running[a] > 0
    /\ actions' = [actions EXCEPT ![a] = AfterDelegate(@, outcome)]
    /\ running' = [running EXCEPT ![a] = @ - 1]
    /\ UNCHANGED <<sessions, plans, outcomes, attempts, verifications, aggVars, serviceVars>>

(***************************************************************************)
(* request_approval and approve_plan.  There is no operation that rejects  *)
(* a plan.                                                                 *)
(***************************************************************************)
request_approval(p) ==
    /\ plans[p].approval_status # "pending_approval"
    /\ plans' = [plans EXCEPT ![p].approval_status = "pending_approval"]
    /\ UNCHANGED <<sessions, actions, outcomes, running, attempts, verifications, aggVars, serviceVars>>

approve_plan(p, approver_id) ==
    /\ plans[p].approval_status # "approved"
    /\ plans' = [plans EXCEPT ![p].approval_status = "approved",
                              ![p].approved_by = approver_id]
    /\ UNCHANGED <<sessions, actions, outcomes, running, attempts, verifications, aggVars, serviceVars>>

(***************************************************************************)
(* observe_student, as verify_outcome uses it.  The Student row is looked  *)
(* up at every observation (line 45); the table belongs to another         *)
(* component and create_intervention_plan does not read it, so a plan's    *)
(* student may have no row: the result is then None (line 47).             *)
(***************************************************************************)
NoObservation == [found |-> FALSE]

Observation(current_risk, risk_trend) ==
    [found |-> TRUE, current_risk |-> current_risk, risk_trend |-> risk_trend]

\* What observe_student returns to verify_outcome.
Observations ==
    {NoObservation}
    \cup {Observation(current_risk, risk_trend) :
             current_risk \in ObservedRisks, risk_trend \in RiskTrends}

(***************************************************************************)
(* verify_outcome: one more InterventionOutcome row, the plan's session    *)
(* set to COMPLETED.  It reads neither the actions nor the session status. *)
(* With no observation, new_observations['current_risk'] (line 611) raises *)
(* before anything is written.  _generate_plan_b computes hypotheses and   *)
(* discards them.  `responded' is whether the student in fact responded    *)
(* to the plan's actions: _check_student_response does not look it up and  *)
(* answers True; the row keeps it in `responded_in_fact', a history field  *)
(* no operation reads.                                                     *)
(***************************************************************************)
BoolCount(b) == IF b THEN 1 ELSE 0

\* _check_student_response(student_id).
_check_student_response == TRUE

GoalsAchieved(risk_before, risk_after, risk_trend) ==
    [risk_reduced |-> (risk_before - risk_after) >= RiskReductionTarget,
     student_responded |-> _check_student_response,
     engagement_improved |-> (risk_trend = "decreasing")]

verify_outcome(p, new_observations, responded) ==
    /\ verifications' = [verifications EXCEPT ![p] = @ + 1]
    /\ IF ~new_observations.found
       THEN UNCHANGED <<sessions, plans, outcomes>>
       ELSE
       LET s == plans[p].session_id
           risk_after == new_observations.current_risk
           risk_trend == new_observations.risk_trend
           risk_before == sessions[s].current_risk_score
           goals == GoalsAchieved(risk_before, risk_after, risk_trend)
           met == BoolCount(goals.risk_reduced)
                    + BoolCount(goals.student_responded)
                    + BoolCount(goals.engagement_improved)
       IN /\ outcomes' = Append(outcomes,
                 [plan_id |-> p,
                  student_id |-> plans[p].student_id,
                  risk_score_before |-> risk_before,
                  risk_score_after |-> risk_after,
                  risk_reduction |-> risk_before - risk_after,
                  goals_achieved |-> goals,
                  goals_met |-> met,
                  responded_in_fact |-> responded,
                  requires_plan_b |-> (2 * met < NumGoals),
                  escalation_needed |-> (risk_after > EscalationRisk)])
          /\ sessions' = [sessions EXCEPT ![s].status = "completed",
                                          ![s].completed_at = TRUE]
          /\ plans' = [plans EXCEPT ![p].completed_at = TRUE]
    /\ UNCHANGED <<actions, running, attempts, aggVars, serviceVars>>

(***************************************************************************)
(* The aggregator: CoordinatorAgent (agents/coordinator.py).               *)
(***************************************************************************)
\* Cut points of _make_decision.
EscalateThreshold == 650
SoftOutreachThreshold == 450
WatchThreshold == 250
HighUncertainty == 700
HighUncertaintyEscalate == 500
HighUncertaintyWatch == 300

\* aggregate_risk of a vetoed Decision in IrreversibilityArbiter.
UrgentSentinel == 1000

\* dict.get(key, default) on a key the dict lacks.
Absent == -1
GetOr(value, default) == IF value = Absent THEN default ELSE value
NoPosture == "<absent>"

\* num/den > t, for den > 0.
Above(num, den, t) == num > t * den

_make_decision_nonstrict(num, den, uncertainty) ==
    IF uncertainty > HighUncertainty
    THEN IF num >= HighUncertaintyEscalate * den THEN "ESCALATE_TO_HUMAN"
         ELSE IF num >= HighUncertaintyWatch * den THEN "WATCH"
         ELSE "NO_ACTION"
    ELSE IF num >= EscalateThreshold * den THEN "ESCALATE_TO_HUMAN"
         ELSE IF num >= SoftOutreachThreshold * den THEN "SOFT_OUTREACH"
         ELSE IF num >= WatchThreshold * den THEN "WATCH"
         ELSE "NO_ACTION"

_make_decision(num, den, uncertainty) ==
    IF uncertainty > HighUncertainty
    THEN IF Above(num, den, HighUncertaintyEscalate) THEN "ESCALATE_TO_HUMAN"
         ELSE IF Above(num, den, HighUncertaintyWatch) THEN "WATCH"
         ELSE "NO_ACTION"
    ELSE IF Above(num, den, EscalateThreshold) THEN "ESCALATE_TO_HUMAN"
         ELSE IF Above(num, den, SoftOutreachThreshold) THEN "SOFT_OUTREACH"
         ELSE IF Above(num, den, WatchThreshold) THEN "WATCH"
         ELSE "NO_ACTION"

\* The weights table of _calculate_aggregate_risk, in hundredths.
AggregateWeights ==
    [FinancialAgent |-> 25, AcademicAgent |-> 20, ResidentialAgent |-> 20,
     LanguageAgent |-> 15, UncertaintyAgent |-> 20]

RECURSIVE WeightedSum(_)
WeightedSum(outputs) ==
    IF outputs = <<>> THEN 0
    ELSE LET o == Head(outputs)
         IN (IF o.agent \in DOMAIN AggregateWeights
                THEN GetOr(o.risk, 0) * AggregateWeights[o.agent] * GetOr(o.confidence, 500)
                ELSE 0)
            + WeightedSum(Tail(outputs))

RECURSIVE TotalWeight(_)
TotalWeight(outputs) ==
    IF outputs = <<>> THEN 0
    ELSE LET o == Head(outputs)
         IN (IF o.agent \in DOMAIN AggregateWeights
                THEN AggregateWeights[o.agent] * GetOr(o.confidence, 500)
                ELSE 0)
            + TotalWeight(Tail(outputs))

\* The aggregate risk as the fraction <<num, den>>; 0.0 when no weight.
_calculate_aggregate_risk(agent_outputs) ==
    IF TotalWeight(agent_outputs) = 0
    THEN <<0, 1>>
    ELSE <<WeightedSum(agent_outputs), TotalWeight(agent_outputs)>>

\* round(x, 3) of x = num/den per mille: the nearest integer, a tie to the
\* even one.
Round3(num, den) ==
    LET q == num \div den
        r == num % den
    IN IF 2 * r < den THEN q
       ELSE IF 2 * r > den THEN q + 1
       ELSE IF q % 2 = 0 THEN q ELSE q + 1

\* An output of a domain scorer, of the uncertainty scorer (risk =
\* uncertainty, confidence = 1 - uncertainty) and of the ethics guardian
\* (the JSON object the language-reasoning capability answers with).
AgentOutput(agent, risk, confidence) ==
    [agent |-> agent, risk |-> risk, confidence |-> confidence]

UncertaintyOutput(uncertainty) ==
    AgentOutput("UncertaintyAgent", uncertainty, 1000 - uncertainty)

EthicsOutput(veto, recommendation, risk) ==
    [agent |-> "EthicsAgent", veto |-> veto, recommendation |-> recommendation,
     risk |-> risk, confidence |-> Absent]

(***************************************************************************)
(* UncertaintyAgent (agents/uncertainty_agent.py).  The event list enters  *)
(* by its length and by the age in days of its most recent event.  The     *)
(* conflict score and the overall uncertainty are exact fractions          *)
(* <<num, den>> of a per-mille value until evaluate rounds them.           *)
(***************************************************************************)
_assess_sparsity(event_count) ==
    IF event_count = 0 THEN 1000
    ELSE IF event_count < 3 THEN 800
    ELSE IF event_count < 5 THEN 500
    ELSE IF event_count < 8 THEN 300
    ELSE 100

_assess_staleness(event_count, days_since) ==
    IF event_count = 0 THEN 1000
    ELSE IF days_since > 60 THEN 900
    ELSE IF days_since > 30 THEN 600
    ELSE IF days_since > 14 THEN 300
    ELSE 100

\* [output['risk'] for output in agent_outputs if output['agent'] not in ...]
RiskScores(agent_outputs) ==
    LET others == SelectSeq(agent_outputs,
                     LAMBDA o : o.agent \notin {"UncertaintyAgent", "EthicsAgent"})
    IN [i \in 1..Len(others) |-> others[i].risk]

Squares(q) == [i \in 1..Len(q) |-> q[i] * q[i]]

\* min(variance * 4, 1.0): the variance of n per-mille risks is
\* (n * sum(r^2) - sum(r)^2) / n^2 per-mille squared.
_assess_conflict(agent_outputs) ==
    LET risk_scores == RiskScores(agent_outputs)
        n == Len(risk_scores)
        num == 4 * (n * SeqSum(Squares(risk_scores))
                      - SeqSum(risk_scores) * SeqSum(risk_scores))
        den == 1000 * n * n
    IN IF Len(agent_outputs) < 2 \/ n < 2 THEN <<0, 1>>
       ELSE IF num > 1000 * den THEN <<1000, 1>>
       ELSE <<num, den>>

\* max(a, b) of an integer a and a fraction b.
FracMax(a, b) == IF a * b[2] >= b[1] THEN <<a, 1>> ELSE b

UncertaintyAgent_evaluate(event_count, days_since, other_agent_outputs) ==
    LET data_sparsity == _assess_sparsity(event_count)
        temporal_staleness == _assess_staleness(event_count, days_since)
        signal_conflict == IF other_agent_outputs # <<>>
                           THEN _assess_conflict(other_agent_outputs)
                           ELSE <<0, 1>>
        worst == IF data_sparsity >= temporal_staleness
                 THEN data_sparsity ELSE temporal_staleness
        uncertainty == FracMax(worst, signal_conflict)
    IN AgentOutput("UncertaintyAgent",
                   Round3(uncertainty[1], uncertainty[2]),
                   Round3(1000 * uncertainty[2] - uncertainty[1], uncertainty[2]))

(***************************************************************************)
(* _identify_minority_opinions: the outputs that are neither the           *)
(* guardian's nor the uncertainty scorer's, when there are at least three, *)
(* whose risk is more than 0.3 away from their mean.  With n outputs of    *)
(* sum S, |risk - S/n| > 0.3 is |n * risk - S| > 300 * n.                  *)
(***************************************************************************)
MinorityThreshold == 300
MinDomainOutputs == 3

Abs(x) == IF x < 0 THEN -x ELSE x

DomainOutputsOf(agent_outputs) ==
    SelectSeq(agent_outputs,
              LAMBDA o : o.agent \notin {"EthicsAgent", "UncertaintyAgent"})

RECURSIVE MinorityAmong(_, _, _)
MinorityAmong(outputs, total, n) ==
    IF outputs = <<>> THEN <<>>
    ELSE LET o == Head(outputs)
             risk_diff == Abs(n * GetOr(o.risk, 0) - total)
         IN (IF risk_diff > MinorityThreshold * n
                THEN <<[agent |-> o.agent,
                        risk |-> GetOr(o.risk, 0),
                        deviation |-> Round3(risk_diff, n)]>>
                ELSE <<>>)
            \o MinorityAmong(Tail(outputs), total, n)

_identify_minority_opinions_with_uncertainty(agent_outputs) ==
    LET domain_outputs ==
            SelectSeq(agent_outputs, LAMBDA o : o.agent # "EthicsAgent")
        risks == [i \in 1..Len(domain_outputs) |-> GetOr(domain_outputs[i].risk, 0)]
    IN IF Len(domain_outputs) < MinDomainOutputs THEN <<>>
       ELSE MinorityAmong(domain_outputs, SeqSum(risks), Len(risks))

_identify_minority_opinions(agent_outputs) ==
    LET domain_outputs == DomainOutputsOf(agent_outputs)
        risks == [i \in 1..Len(domain_outputs) |-> GetOr(domain_outputs[i].risk, 0)]
    IN IF Len(domain_outputs) < MinDomainOutputs THEN <<>>
       ELSE MinorityAmong(domain_outputs, SeqSum(risks), Len(risks))

\* CoordinatorAgent.analyze_student from step 4 on: the outputs of the six
\* agents are there, the ethics guardian's last.
analyze_student(domain_outputs, uncertainty_output, ethics_output) ==
    LET agent_outputs == domain_outputs \o <<uncertainty_output, ethics_output>>
        aggregate == _calculate_aggregate_risk(agent_outputs)
    IN IF ethics_output.veto
       THEN [source |-> "CoordinatorAgent",
             decision |-> ethics_output.recommendation,
             aggregate_risk |-> GetOr(ethics_output.risk, 0),
             uncertainty_level |-> GetOr(uncertainty_output.risk, 0),
             ethics_veto |-> TRUE,
             agent_outputs |-> agent_outputs,
             minority_opinions |-> _identify_minority_opinions(agent_outputs)]
       ELSE [source |-> "CoordinatorAgent",
             decision |-> _make_decision(aggregate[1], aggregate[2],
                                         GetOr(uncertainty_output.risk, 0)),
             aggregate_risk |-> Round3(aggregate[1], aggregate[2]),
             exact_risk |-> aggregate,
             uncertainty_level |-> GetOr(uncertainty_output.risk, 0),
             ethics_veto |-> FALSE,
             agent_outputs |-> agent_outputs,
             minority_opinions |-> _identify_minority_opinions(agent_outputs)]

(***************************************************************************)
(* IrreversibilityArbiter.analyze_student: the guardian's veto, else the   *)
(* posture and the distance the language-reasoning capability answers.     *)
(***************************************************************************)
DefaultDistance == 50

arbiter_analyze_student(ethics_output, posture, distance) ==
    LET agent_outputs ==
            <<[agent |-> "FrictionAccumulationAgent"],
              [agent |-> "RecoveryCapacityAgent"],
              [agent |-> "InstitutionalInertiaAgent"],
              ethics_output>>
    IN IF ethics_output.veto
       THEN [source |-> "IrreversibilityArbiter",
             decision |-> ethics_output.recommendation,
             aggregate_risk |-> UrgentSentinel,
             uncertainty_level |-> 0,
             ethics_veto |-> TRUE,
             agent_outputs |-> agent_outputs]
       ELSE [source |-> "IrreversibilityArbiter",
             decision |-> (IF posture = NoPosture THEN "OBSERVE" ELSE posture),
             aggregate_risk |-> (100 - GetOr(distance, DefaultDistance)) * 10,
             uncertainty_level |-> 100,
             ethics_veto |-> FALSE,
             agent_outputs |-> agent_outputs]

NoDecision == [source |-> "none"]
NoRequest == [source |-> "none"]

\* None, as the value of COORDINATOR_INSTANCE; the instances are numbered
\* from 1 in the order of their construction.
None == 0

\* None, as the value of a metadata field and of an optional argument of
\* the chat manager, whose ids are strings.
Unset == "None"

\* The callers of get_coordinator_singleton: the thread startup_event
\* starts (main.py 86-99), and the requests for the dashboard.
StartupThread == 0
Callers == 0..NumRequests

\* The session ids a client can present and uuid4 can draw, the
\* counselors and the student ids a client can send.
ChatSessionIds == {"anon_1", "anon_2"}
CounselorIds == {"counselor_1"}
StudentIds == {"student_1"}
NoCall == [op |-> "none"]

Init ==
    /\ sessions = <<>>
    /\ plans = <<>>
    /\ actions = <<>>
    /\ outcomes = <<>>
    /\ running = <<>>
    /\ attempts = <<>>
    /\ verifications = <<>>
    /\ decision = NoDecision
    /\ request = NoRequest
    /\ COORDINATOR_INSTANCE = None
    /\ constructed = 0
    /\ pc = [c \in Callers |-> "not called"]
    /\ local = [c \in Callers |-> None]
    /\ coordinator = [c \in Callers |-> None]
    /\ active_sessions = {}
    /\ active_counselors = {}
    /\ session_metadata = <<>>
    /\ message_history = <<>>
    /\ handlers = [s \in ChatSessionIds |-> 0]
    /\ chat_call = NoCall

(***************************************************************************)
(* The callers of the orchestrator: any operation, on any plan or action,  *)
(* in any order, within the bounds.                                        *)
(***************************************************************************)
\* The calls made so far that added a row or started an execution.
CallsMade == Len(plans) + SeqSum(attempts) + SeqSum(verifications)

CreatePlan ==
    /\ CallsMade < MaxCalls
    /\ \E student_id \in Students, current_risk \in PlanningRisks,
          financial_stress \in BOOLEAN, academic_pressure \in BOOLEAN :
            create_intervention_plan(student_id, current_risk,
                                     financial_stress, academic_pressure)

ExecuteBegin ==
    /\ CallsMade < MaxCalls
    /\ SeqSum(running) < MaxConcurrent
    /\ \E a \in 1..Len(actions) : execute_action_begin(a)

ExecuteEnd ==
    \E a \in 1..Len(actions), outcome \in DelegateOutcomes :
        execute_action_end(a, outcome)

RequestApproval == \E p \in 1..Len(plans) : request_approval(p)

ApprovePlan == \E p \in 1..Len(plans) : approve_plan(p, 1)

VerifyOutcome ==
    /\ CallsMade < MaxCalls
    /\ \E p \in 1..Len(plans), new_observations \in Observations,
          responded \in BOOLEAN :
            verify_outcome(p, new_observations, responded)

Next ==
    \/ CreatePlan
    \/ ExecuteBegin
    \/ ExecuteEnd
    \/ RequestApproval
    \/ ApprovePlan
    \/ VerifyOutcome

Spec == Init /\ [][Next]_vars

(***************************************************************************)
(* The same operations on the actions of one plan, with room for the       *)
(* retries of an action.                                                   *)
(***************************************************************************)
CreateOnePlan ==
    /\ plans = <<>>
    /\ \E student_id \in Students, current_risk \in PlanningRisks,
          financial_stress \in BOOLEAN, academic_pressure \in BOOLEAN :
            create_intervention_plan(student_id, current_risk,
                                     financial_stress, academic_pressure)

RetryBegin ==
    /\ SeqSum(attempts) < MaxRetryCalls
    /\ SeqSum(running) < MaxConcurrent
    /\ \E a \in 1..Len(actions) : execute_action_begin(a)

\* The plan's one verification, of a student who responded.
VerifyOnce ==
    /\ SeqSum(verifications) = 0
    /\ \E p \in 1..Len(plans), new_observations \in Observations :
            verify_outcome(p, new_observations, TRUE)

NextExec ==
    \/ CreateOnePlan
    \/ RetryBegin
    \/ ExecuteEnd
    \/ RequestApproval
    \/ ApprovePlan
    \/ VerifyOnce

SpecExec == Init /\ [][NextExec]_vars

(***************************************************************************)
(* The domain scorers (agents/financial_agent.py, academic_agent.py,       *)
(* residential_agent.py, language_agent.py, financial_agent_ml.py).  An    *)
(* event is [event_type, severity, day]: severity per mille, day the       *)
(* timestamp in whole days; `now' is datetime.utcnow() in the same unit.   *)
(* Risks are exact fractions of a per-mille value until round(risk, 3).    *)
(***************************************************************************)
FinancialTypes == {"scholarship_delay", "fee_payment", "financial_aid", "account_hold"}
AcademicTypes ==
    {"attendance_warning", "deadline_conflict", "admin_warning",
     "resource_access", "registration_block"}
ResidentialTypes ==
    {"hostel_access", "mess_card", "room_assignment", "amenity_restriction",
     "housing_payment"}
BasicNeedsTypes == {"mess_card", "amenity_restriction"}
LanguageTypes ==
    {"language_barrier", "communication_issue", "form_confusion",
     "instruction_misunderstanding"}

\* [e for e in events if e.event_type in types]
OfTypes(events, types) == SelectSeq(events, LAMBDA e : e.event_type \in types)

\* sum(e.severity for e in events)
SeveritySum(events) == SeqSum([i \in 1..Len(events) |-> events[i].severity])

Min(a, b) == IF a <= b THEN a ELSE b

\* FinancialAgent._is_recent: event.timestamp >= utcnow() - timedelta(days).
_is_recent(event, now, days) == event.day >= now - days

FinancialAgent_evaluate(events, now) ==
    LET financial_events == OfTypes(events, FinancialTypes)
        event_count == Len(financial_events)
        recent_events ==
            SelectSeq(financial_events, LAMBDA e : _is_recent(e, now, 30))
    IN IF event_count = 0
       THEN AgentOutput("FinancialAgent", 0, 900)
       ELSE \* min(n/5, 1)*0.4 + (recent/n)*0.3 + (sum/n)*0.3, over 10*n
            AgentOutput("FinancialAgent",
                Round3(800 * Min(event_count, 5) * event_count
                          + 3000 * Len(recent_events)
                          + 3 * SeveritySum(financial_events),
                       10 * event_count),
                Min(600 + 50 * event_count, 950))

\* AcademicAgent._detect_clustering: consecutive events, in timestamp
\* order, at most 14 days apart.
_detect_clustering(events) ==
    IF Len(events) < 2 THEN 0
    ELSE LET days == SortSeq([i \in 1..Len(events) |-> events[i].day],
                             LAMBDA a, b : a < b)
         IN Cardinality({i \in 1..(Len(days) - 1) : days[i + 1] - days[i] <= 14})

AcademicAgent_evaluate(events) ==
    LET academic_events == OfTypes(events, AcademicTypes)
        event_count == Len(academic_events)
        clustered_events == _detect_clustering(academic_events)
        \* 3000 * min(base_risk + cluster_penalty, 1.0)
        level == Min(Min(500 * event_count, 2700)
                        + 3 * Min(150 * clustered_events, 300), 3000)
    IN IF event_count = 0
       THEN AgentOutput("AcademicAgent", 0, 850)
       ELSE AgentOutput("AcademicAgent",
                Round3(level * SeveritySum(academic_events), 3000 * event_count),
                Min(650 + 40 * event_count, 920))

ResidentialAgent_evaluate(events, now) ==
    LET residential_events == OfTypes(events, ResidentialTypes)
        event_count == Len(residential_events)
        basic_needs_events == OfTypes(residential_events, BasicNeedsTypes)
        recent_events ==
            SelectSeq(residential_events, LAMBDA e : now - e.day <= 21)
        \* base_risk * (1 + 0.2 b) * (0.7 + 0.3 recent/n), over 100*n
        num == Min(250 * event_count, 850)
                 * (10 + 2 * Len(basic_needs_events))
                 * (7 * event_count + 3 * Len(recent_events))
        den == 100 * event_count
    IN IF event_count = 0
       THEN AgentOutput("ResidentialAgent", 0, 800)
       ELSE AgentOutput("ResidentialAgent",
                IF num > 1000 * den THEN 1000 ELSE Round3(num, den),
                Min(550 + 60 * event_count, 880))

LanguageAgent_evaluate(events) ==
    LET language_events == OfTypes(events, LanguageTypes)
        event_count == Len(language_events)
        \* base_risk * cascade_factor * avg_severity, over 10000*n
        num == Min(200 * event_count, 800)
                 * Min(10 + 2 * (event_count - 1), 20)
                 * SeveritySum(language_events)
        den == 10000 * event_count
    IN IF event_count = 0
       THEN AgentOutput("LanguageAgent", 0, 750)
       ELSE AgentOutput("LanguageAgent",
                IF num > 1000 * den THEN 1000 ELSE Round3(num, den),
                Min(600 + 50 * event_count, 850))

\* FinancialAgentML._heuristic_risk: min(n/5, 1)*0.4 + (sum/n)*0.6, as a
\* fraction over 10*n.
_heuristic_risk(events) ==
    IF events = <<>> THEN <<0, 1>>
    ELSE <<800 * Min(Len(events), 5) * Len(events) + 6 * SeveritySum(events),
           10 * Len(events)>>

\* The confidence FinancialAgentML reports when it has no trained model.
FallbackConfidence == 600

\* FinancialAgentML.evaluate.  With a trained model risk_prob is the
\* probability the classifier gives class 1 and the confidence the larger
\* of its two class probabilities; without one, the heuristic.
FinancialAgentML_evaluate(events, model_trained, risk_prob) ==
    LET financial_events == OfTypes(events, FinancialTypes)
        heuristic == _heuristic_risk(financial_events)
    IN IF model_trained
       THEN AgentOutput("FinancialAgent", risk_prob,
                        IF risk_prob >= 1000 - risk_prob
                           THEN risk_prob ELSE 1000 - risk_prob)
       ELSE AgentOutput("FinancialAgent",
                        Round3(heuristic[1], heuristic[2]), FallbackConfidence)

(***************************************************************************)
(* The language-reasoning service as shipped (llm_core.py) and the ethics  *)
(* guardian on top of it (agents/ethics_agent.py).                         *)
(***************************************************************************)
\* LLMService.provider: "mock" without LLM_API_KEY, "openai" with one.
Providers == {"mock", "openai"}

\* LLMService.query_agent: the JSON object answered for an agent name.  In
\* mock mode it is the constant MockLLM.generate holds for that name; with
\* an API key it is {"error": "Real LLM not implemented yet"} for every
\* name.  The prompt is not read.  A key the object lacks is Absent
\* (NoPosture for a string); veto is as .get('veto', False) reads it.
query_agent(provider, agent_name) ==
    IF provider = "mock"
    THEN CASE agent_name = "EthicsAgent" ->
                [error |-> FALSE, veto |-> FALSE,
                 recommendation |-> "URGENT_HUMAN_ESCALATION",
                 posture |-> NoPosture,
                 distance_to_irreversibility |-> Absent]
           [] agent_name = "IrreversibilityArbiter" ->
                [error |-> FALSE, veto |-> FALSE,
                 recommendation |-> NoPosture,
                 posture |-> "URGENT_HUMAN_ESCALATION",
                 distance_to_irreversibility |-> 15]
    ELSE [error |-> TRUE, veto |-> FALSE, recommendation |-> NoPosture,
          posture |-> NoPosture, distance_to_irreversibility |-> Absent]

\* EthicsAgent.evaluate: the reviewed assessments go into the prompt only;
\* the output is the service's answer with the guardian's name added.
EthicsAgent_evaluate(agent_outputs, provider) ==
    LET result == query_agent(provider, "EthicsAgent")
    IN EthicsOutput(result.veto, result.recommendation, Absent)

(***************************************************************************)
(* The two pipelines from an event list to a Decision.                     *)
(***************************************************************************)
\* (utcnow() - most_recent.timestamp).days of _assess_staleness.
DaysSinceMostRecent(events, now) ==
    IF events = <<>> THEN 0
    ELSE now - (CHOOSE d \in {events[i].day : i \in 1..Len(events)} :
                    \A i \in 1..Len(events) : events[i].day <= d)

\* Steps 1 and 2 of CoordinatorAgent.analyze_student.
DomainOutputs(events, now) ==
    <<FinancialAgent_evaluate(events, now), AcademicAgent_evaluate(events),
      ResidentialAgent_evaluate(events, now), LanguageAgent_evaluate(events)>>

CoordinatorAgent_analyze_student(events, now, provider) ==
    LET domain_outputs == DomainOutputs(events, now)
        uncertainty_output ==
            UncertaintyAgent_evaluate(Len(events),
                                      DaysSinceMostRecent(events, now),
                                      domain_outputs)
        ethics_output ==
            EthicsAgent_evaluate(domain_outputs \o <<uncertainty_output>>, provider)
    IN analyze_student(domain_outputs, uncertainty_output, ethics_output)

\* IrreversibilityArbiter.analyze_student: the events go into the prompts
\* of its three scorers only.
IrreversibilityArbiter_analyze_student(events, provider) ==
    LET arbiter_result == query_agent(provider, "IrreversibilityArbiter")
    IN arbiter_analyze_student(EthicsAgent_evaluate(<<>>, provider),
                               arbiter_result.posture,
                               arbiter_result.distance_to_irreversibility)

\* A call that ended in an exception instead of a value.
Raised(error) == [source |-> "raised", error |-> error]

(***************************************************************************)
(* The aggregator's callers: one evaluation cycle in a behaviour, on the   *)
(* outputs the scorers and the guardian can hand over.                     *)
(***************************************************************************)
DomainRisks == {0, 500, 1000}
DomainConfidences == {0, 900}
UncertaintyLevels == {100, 700, 800, 1000}
\* len(events), and the age in days of the most recent event.
EventCounts == {0, 2, 8}
DaysSince == {0, 61}
GuardianRecommendations ==
    {"URGENT_HUMAN_ESCALATION", "ESCALATE_TO_HUMAN", "SOFT_OUTREACH"}
GuardianRisks == {Absent, 900}
ArbiterPostures == {NoPosture, "OBSERVE", "SOFT_OUTREACH", "URGENT_HUMAN_ESCALATION"}
ArbiterDistances == {Absent, 0, 15, 100}

\* Aggregate risks handed to _make_decision: every cut point, and the
\* values next to it.
CutPointRisks ==
    {r \in 0..1000 : (r % 50) \in {0, 1, 49}}

DomainAgents ==
    <<"FinancialAgent", "AcademicAgent", "ResidentialAgent", "LanguageAgent">>

AnalyzeStudent ==
    /\ decision = NoDecision
    /\ \E risks \in [1..4 -> DomainRisks],
          confidences \in [1..4 -> DomainConfidences],
          event_count \in EventCounts,
          days_since \in DaysSince,
          veto \in BOOLEAN,
          recommendation \in GuardianRecommendations,
          guardian_risk \in GuardianRisks :
            LET domain_outputs ==
                    [i \in 1..4 |->
                        AgentOutput(DomainAgents[i], risks[i], confidences[i])]
                ethics_output == EthicsOutput(veto, recommendation, guardian_risk)
            IN /\ event_count = 0 => days_since = 0
               /\ decision' = analyze_student(
                      domain_outputs,
                      UncertaintyAgent_evaluate(event_count, days_since, domain_outputs),
                      ethics_output)
               /\ request' = [source |-> "CoordinatorAgent",
                              domain_outputs |-> domain_outputs,
                              event_count |-> event_count,
                              days_since |-> days_since,
                              ethics_output |-> ethics_output]
    /\ UNCHANGED <<orchVars, serviceVars>>

ArbiterAnalyzeStudent ==
    /\ decision = NoDecision
    /\ \E veto \in BOOLEAN,
          recommendation \in GuardianRecommendations,
          guardian_risk \in GuardianRisks,
          posture \in ArbiterPostures,
          distance \in ArbiterDistances :
            /\ decision' = arbiter_analyze_student(
                    EthicsOutput(veto, recommendation, guardian_risk),
                    posture, distance)
            /\ request' = [source |-> "IrreversibilityArbiter"]
    /\ UNCHANGED <<orchVars, serviceVars>>

MakeDecision ==
    /\ decision = NoDecision
    /\ \E aggregate_risk \in CutPointRisks, uncertainty \in UncertaintyLevels :
            /\ decision' = [source |-> "_make_decision",
                            exact_risk |-> <<aggregate_risk, 1>>,
                            uncertainty_level |-> uncertainty,
                            ethics_veto |-> FALSE,
                            decision |-> _make_decision(aggregate_risk, 1, uncertainty)]
            /\ request' = [source |-> "_make_decision"]
    /\ UNCHANGED <<orchVars, serviceVars>>

\* Risks handed to _identify_minority_opinions.  Of three of them, 0, 0 and
\* 0.451 put the last 0.3007 away from the mean and 0, 0 and 0.448 put it
\* 0.2987 away; no three or four of them put one exactly 0.3 away, where
\* the comparison of line 229 is decided by the binary representation of
\* the operands.
MinorityRisks == {0, 448, 451, 1000}

IdentifyMinority ==
    /\ decision = NoDecision
    /\ \E n \in 0..Len(DomainAgents) :
         \E risks \in [1..n -> MinorityRisks],
            with_uncertainty \in BOOLEAN, with_ethics \in BOOLEAN :
            LET agent_outputs ==
                    [i \in 1..n |-> AgentOutput(DomainAgents[i], risks[i], 900)]
                    \o (IF with_uncertainty THEN <<UncertaintyOutput(1000)>> ELSE <<>>)
                    \o (IF with_ethics
                           THEN <<EthicsOutput(FALSE, "SOFT_OUTREACH", Absent)>>
                           ELSE <<>>)
            IN /\ decision' = [source |-> "_identify_minority_opinions",
                               agent_outputs |-> agent_outputs,
                               minority_opinions |->
                                   _identify_minority_opinions(agent_outputs)]
               /\ request' = [source |-> "_identify_minority_opinions"]
    /\ UNCHANGED <<orchVars, serviceVars>>

\* Event lists handed to the pipelines and the scorers: one event type of
\* each scorer, two of the residential scorer (a basic-needs one and
\* another), and timestamps and clock readings that put an event on either
\* side of the 14, 21, 30 and 60 day windows.
EventTypes ==
    {"scholarship_delay", "attendance_warning", "mess_card", "hostel_access",
     "language_barrier"}
Severities == {500, 1000}
EventDays == {0, 40}
Clocks == {40, 80}
Events == [event_type : EventTypes, severity : Severities, day : EventDays]
EventLists == UNION {[1..n -> Events] : n \in 0..MaxEvents}

\* How an event answers its readers: a StudentEvent row has attributes
\* only; LanguageAgent reads e.get('event_type') (language_agent.py:32)
\* where the other scorers read e.event_type, so it raises AttributeError
\* on the first event of a list of rows.
Accessors == {"attribute", "attribute and get"}

CoordinatorAnalyzeEvents ==
    /\ decision = NoDecision
    /\ \E events \in EventLists, now \in Clocks, provider \in Providers,
          accessor \in Accessors :
            LET domain_outputs == DomainOutputs(events, now)
            IN /\ decision' =
                    IF events # <<>> /\ accessor = "attribute"
                    THEN Raised("AttributeError")
                    ELSE CoordinatorAgent_analyze_student(events, now, provider)
               /\ request' = [source |-> "CoordinatorAgent",
                              events |-> events,
                              now |-> now,
                              provider |-> provider,
                              accessor |-> accessor,
                              domain_outputs |-> domain_outputs,
                              event_count |-> Len(events),
                              days_since |-> DaysSinceMostRecent(events, now),
                              ethics_output |->
                                  EthicsAgent_evaluate(domain_outputs, provider)]
    /\ UNCHANGED <<orchVars, serviceVars>>

ArbiterAnalyzeEvents ==
    /\ decision = NoDecision
    /\ \E events \in EventLists, provider \in Providers :
            /\ decision' = IrreversibilityArbiter_analyze_student(events, provider)
            /\ request' = [source |-> "IrreversibilityArbiter",
                           events |-> events,
                           provider |-> provider]
    /\ UNCHANGED <<orchVars, serviceVars>>

\* A trained classifier's probability of class 1.
MLProbabilities == {0, 300, 500, 1000}

Scorers ==
    {"FinancialAgent", "AcademicAgent", "ResidentialAgent", "LanguageAgent",
     "FinancialAgentML"}

OwnTypes ==
    [FinancialAgent |-> FinancialTypes, AcademicAgent |-> AcademicTypes,
     ResidentialAgent |-> ResidentialTypes, LanguageAgent |-> LanguageTypes,
     FinancialAgentML |-> FinancialTypes]

\* One scorer's evaluate on an event list.
EvaluateScorer ==
    /\ decision = NoDecision
    /\ \E events \in EventLists, now \in Clocks, scorer \in Scorers,
          model_trained \in BOOLEAN, risk_prob \in MLProbabilities :
            /\ scorer # "FinancialAgentML"
                    => ~model_trained /\ risk_prob = 0
            /\ ~model_trained => risk_prob = 0
            /\ decision' =
                  [source |-> "scorer",
                   output |->
                      CASE scorer = "FinancialAgent" ->
                              FinancialAgent_evaluate(events, now)
                        [] scorer = "AcademicAgent" ->
                              AcademicAgent_evaluate(events)
                        [] scorer = "ResidentialAgent" ->
                              ResidentialAgent_evaluate(events, now)
                        [] scorer = "LanguageAgent" ->
                              LanguageAgent_evaluate(events)
                        [] scorer = "FinancialAgentML" ->
                              FinancialAgentML_evaluate(events, model_trained,
                                                        risk_prob)]
            /\ request' = [source |-> "scorer",
                           scorer |-> scorer,
                           events |-> events,
                           now |-> now,
                           model_trained |-> model_trained]
    /\ UNCHANGED <<orchVars, serviceVars>>

NextDecision ==
    \/ AnalyzeStudent
    \/ ArbiterAnalyzeStudent
    \/ MakeDecision
    \/ IdentifyMinority
    \/ CoordinatorAnalyzeEvents
    \/ ArbiterAnalyzeEvents
    \/ EvaluateScorer

SpecDecision == Init /\ [][NextDecision]_vars

(***************************************************************************)
(* routes/student.py get_coordinator_singleton, statement by statement: a  *)
(* thread can be switched out between any two of them.  The test of line   *)
(* 56 and the assignment of line 59 are not under a lock.  The import of   *)
(* line 58 and the constructor load the four scorers and their model       *)
(* files and can raise; both callers catch the exception and go on with no *)
(* coordinator (main.py 96, routes/student.py 78-81).                      *)
(***************************************************************************)
InCall(c) == pc[c] \in {"construct", "assign", "return"}

\* Line 56: if COORDINATOR_INSTANCE is None.
singleton_test(c) ==
    /\ pc[c] = "not called"
    /\ pc' = [pc EXCEPT ![c] = IF COORDINATOR_INSTANCE = None
                               THEN "construct" ELSE "return"]
    /\ UNCHANGED <<COORDINATOR_INSTANCE, constructed, local, coordinator>>

\* Lines 58-59, right-hand side: CoordinatorAgentML().
singleton_construct(c, raises) ==
    /\ pc[c] = "construct"
    /\ IF raises
       THEN /\ pc' = [pc EXCEPT ![c] = "raised"]
            /\ UNCHANGED <<constructed, local>>
       ELSE /\ constructed' = constructed + 1
            /\ local' = [local EXCEPT ![c] = constructed + 1]
            /\ pc' = [pc EXCEPT ![c] = "assign"]
    /\ UNCHANGED <<COORDINATOR_INSTANCE, coordinator>>

\* Line 59, the assignment to the global.
singleton_assign(c) ==
    /\ pc[c] = "assign"
    /\ COORDINATOR_INSTANCE' = local[c]
    /\ pc' = [pc EXCEPT ![c] = "return"]
    /\ UNCHANGED <<constructed, local, coordinator>>

\* Line 61: return COORDINATOR_INSTANCE, read again from the global.
singleton_return(c) ==
    /\ pc[c] = "return"
    /\ coordinator' = [coordinator EXCEPT ![c] = COORDINATOR_INSTANCE]
    /\ pc' = [pc EXCEPT ![c] = "returned"]
    /\ UNCHANGED <<COORDINATOR_INSTANCE, constructed, local>>

\* The thread of startup_event: load_models calls the function once.
LoadModels ==
    /\ \/ singleton_test(StartupThread)
       \/ \E raises \in BOOLEAN : singleton_construct(StartupThread, raises)
       \/ singleton_assign(StartupThread)
       \/ singleton_return(StartupThread)
    /\ UNCHANGED <<orchVars, aggVars, chatVars>>

\* get_student_dashboard is a coroutine and the call has no await in it:
\* the event loop runs one request's call to its end before the next
\* request's, and the startup thread runs beside them.
GetStudentDashboard ==
    /\ \E c \in Callers \ {StartupThread} :
          \/ /\ \A d \in Callers \ {StartupThread, c} : ~InCall(d)
             /\ singleton_test(c)
          \/ \E raises \in BOOLEAN : singleton_construct(c, raises)
          \/ singleton_assign(c)
          \/ singleton_return(c)
    /\ UNCHANGED <<orchVars, aggVars, chatVars>>

NextSingleton ==
    \/ LoadModels
    \/ GetStudentDashboard

SpecSingleton == Init /\ [][NextSingleton]_vars

(***************************************************************************)
(* chat/counselor_chat.py CounselorChatManager, and the two websocket      *)
(* endpoints of main.py 273-325 that call it.  A student endpoint calls    *)
(* connect_student, then handles what its websocket receives until the     *)
(* websocket disconnects; `handlers' counts the endpoints in that loop.    *)
(* What is sent on a websocket is kept only as far as it carries a student *)
(* id (`identity_sent'); started_at, a timestamp, is left out of the       *)
(* metadata.                                                               *)
(***************************************************************************)
\* Message texts: one plain, one with a crisis keyword (line 39-42), one with
\* an attack pattern of the moderation bot (professionalism_bot.py 28-32).
PlainText == "hello"
CrisisText == "i want to die"
AttackText == "you're stupid"
MessageTexts == {PlainText, CrisisText, AttackText}

\* moderation.professionalism_bot.check_message: is_allowed.
check_message(message) == message # AttackText

\* _detect_crisis(message).
_detect_crisis(message) == message = CrisisText

\* Lines 55-60: the metadata of a session that has just connected.
NewMetadata ==
    [is_anonymous |-> TRUE, student_id |-> Unset, assigned_counselor |-> Unset]

\* d[key] = value on a dict.
SetItem(d, key, value) ==
    [k \in DOMAIN d \cup {key} |-> IF k = key THEN value ELSE d[k]]

\* session_id is None when the client gives none: uuid4 draws one no
\* session has.
connect_student(session_id) ==
    /\ handlers[session_id] < MaxHandlers
    /\ active_sessions' = active_sessions \cup {session_id}
    /\ session_metadata' = SetItem(session_metadata, session_id, NewMetadata)
    /\ message_history' = SetItem(message_history, session_id, <<>>)
    /\ handlers' = [handlers EXCEPT ![session_id] = @ + 1]
    /\ chat_call' = [op |-> "connect_student", session_id |-> session_id,
                     identity_sent |-> Unset]
    /\ UNCHANGED active_counselors

connect_counselor(counselor_id) ==
    /\ counselor_id \notin active_counselors
    /\ active_counselors' = active_counselors \cup {counselor_id}
    /\ chat_call' = [op |-> "connect_counselor", counselor_id |-> counselor_id,
                     identity_sent |-> Unset]
    /\ UNCHANGED <<active_sessions, session_metadata, message_history, handlers>>

handle_student_message(session_id, message) ==
    /\ handlers[session_id] > 0
    /\ chat_call' = [op |-> "handle_student_message", session_id |-> session_id,
                     identity_sent |-> Unset]
    /\ IF session_id \in active_sessions /\ check_message(message)
       THEN /\ Len(message_history[session_id]) < MaxMessages
            /\ message_history' =
                   [message_history EXCEPT ![session_id] = Append(@,
                       [type |-> "student_message",
                        message |-> message,
                        crisis_flag |-> _detect_crisis(message)])]
       ELSE UNCHANGED message_history
    /\ UNCHANGED <<active_sessions, active_counselors, session_metadata, handlers>>

handle_counselor_message(counselor_id, session_id, message) ==
    /\ counselor_id \in active_counselors
    /\ chat_call' = [op |-> "handle_counselor_message", session_id |-> session_id,
                     counselor_id |-> counselor_id, identity_sent |-> Unset]
    /\ IF session_id \in active_sessions
       THEN /\ Len(message_history[session_id]) < MaxMessages
            /\ session_metadata' =
                   [session_metadata EXCEPT ![session_id].assigned_counselor =
                       IF @ = Unset THEN counselor_id ELSE @]
            /\ message_history' =
                   [message_history EXCEPT ![session_id] = Append(@,
                       [type |-> "counselor_message", message |-> message])]
       ELSE UNCHANGED <<session_metadata, message_history>>
    /\ UNCHANGED <<active_sessions, active_counselors, handlers>>

request_identity_reveal(counselor_id, session_id) ==
    /\ counselor_id \in active_counselors
    /\ chat_call' = [op |-> "request_identity_reveal", session_id |-> session_id,
                     counselor_id |-> counselor_id, identity_sent |-> Unset]
    /\ UNCHANGED <<active_sessions, active_counselors, session_metadata,
                   message_history, handlers>>

\* Lines 192-200: the counselor the identity_revealed message goes to.
Notified(metadata) ==
    /\ metadata.assigned_counselor # Unset
    /\ metadata.assigned_counselor \in active_counselors

\* handle_consent_response, were it to keep the student id the client sent
\* whatever the consent.
handle_consent_response_storing_id(session_id, consent_given, student_id) ==
    /\ handlers[session_id] > 0
    /\ session_metadata' =
           [session_metadata EXCEPT ![session_id].student_id = student_id,
                                    ![session_id].is_anonymous =
                                        ~(consent_given /\ student_id # Unset)]
    /\ chat_call' = [op |-> "handle_consent_response", session_id |-> session_id,
                     consent_given |-> consent_given, student_id |-> student_id,
                     identity_sent |-> Unset]
    /\ UNCHANGED <<active_sessions, active_counselors, message_history, handlers>>

\* consent_given is False when the client gives none, student_id None when
\* it gives none or an empty one.
handle_consent_response(session_id, consent_given, student_id) ==
    /\ handlers[session_id] > 0
    /\ IF consent_given /\ student_id # Unset
       THEN /\ session_metadata' =
                   [session_metadata EXCEPT ![session_id].is_anonymous = FALSE,
                                            ![session_id].student_id = student_id]
            /\ chat_call' =
                   [op |-> "handle_consent_response", session_id |-> session_id,
                    consent_given |-> consent_given, student_id |-> student_id,
                    identity_sent |-> IF Notified(session_metadata[session_id])
                                      THEN student_id ELSE Unset]
       ELSE /\ UNCHANGED session_metadata
            /\ chat_call' =
                   [op |-> "handle_consent_response", session_id |-> session_id,
                    consent_given |-> consent_given, student_id |-> student_id,
                    identity_sent |-> Unset]
    /\ UNCHANGED <<active_sessions, active_counselors, message_history, handlers>>

\* disconnect(session_id=...), from the endpoint whose websocket closed.
disconnect_student(session_id) ==
    /\ handlers[session_id] > 0
    /\ handlers' = [handlers EXCEPT ![session_id] = @ - 1]
    /\ active_sessions' = active_sessions \ {session_id}
    /\ chat_call' = [op |-> "disconnect", session_id |-> session_id,
                     identity_sent |-> Unset]
    /\ UNCHANGED <<active_counselors, session_metadata, message_history>>

\* disconnect(counselor_id=...).
disconnect_counselor(counselor_id) ==
    /\ counselor_id \in active_counselors
    /\ active_counselors' = active_counselors \ {counselor_id}
    /\ chat_call' = [op |-> "disconnect", counselor_id |-> counselor_id,
                     identity_sent |-> Unset]
    /\ UNCHANGED <<active_sessions, session_metadata, message_history, handlers>>

ConnectStudent ==
    /\ \E session_id \in ChatSessionIds : connect_student(session_id)
    /\ UNCHANGED <<orchVars, aggVars, singletonVars>>

ConnectCounselor ==
    /\ \E counselor_id \in CounselorIds : connect_counselor(counselor_id)
    /\ UNCHANGED <<orchVars, aggVars, singletonVars>>

StudentMessage ==
    /\ \E session_id \in ChatSessionIds, message \in MessageTexts :
            handle_student_message(session_id, message)
    /\ UNCHANGED <<orchVars, aggVars, singletonVars>>

CounselorMessage ==
    /\ \E counselor_id \in CounselorIds, session_id \in ChatSessionIds :
            handle_counselor_message(counselor_id, session_id, PlainText)
    /\ UNCHANGED <<orchVars, aggVars, singletonVars>>

RequestIdentity ==
    /\ \E counselor_id \in CounselorIds, session_id \in ChatSessionIds :
            request_identity_reveal(counselor_id, session_id)
    /\ UNCHANGED <<orchVars, aggVars, singletonVars>>

ConsentResponse ==
    /\ \E session_id \in ChatSessionIds, consent_given \in BOOLEAN,
          student_id \in StudentIds \cup {Unset} :
            handle_consent_response(session_id, consent_given, student_id)
    /\ UNCHANGED <<orchVars, aggVars, singletonVars>>

DisconnectStudent ==
    /\ \E session_id \in ChatSessionIds : disconnect_student(session_id)
    /\ UNCHANGED <<orchVars, aggVars, singletonVars>>

DisconnectCounselor ==
    /\ \E counselor_id \in CounselorIds : disconnect_counselor(counselor_id)
    /\ UNCHANGED <<orchVars, aggVars, singletonVars>>

NextChat ==
    \/ ConnectStudent
    \/ ConnectCounselor
    \/ StudentMessage
    \/ CounselorMessage
    \/ RequestIdentity
    \/ ConsentResponse
    \/ DisconnectStudent
    \/ DisconnectCounselor

SpecChat == Init /\ [][NextChat]_vars

(***************************************************************************)
(* Properties of the orchestrator.                                         *)
(***************************************************************************)
ActionIds == 1..Len(actions)
PlanIds == 1..Len(plans)
SessionIds == 1..Len(sessions)

\* The action a depends_on reference names.  The stored column is used
\* when it holds an id; otherwise it is the action that line 437 of
\* _create_action_sequence takes the reference from: the first action of
\* the plan, for the final escalation action of a plan with other actions.
FirstActionOf(p) ==
    CHOOSE i \in ActionIds :
        actions[i].plan_id = p /\ actions[i].sequence_order = 1

DependsOn(a) ==
    IF actions[a].depends_on_action_id # NoId
    THEN actions[a].depends_on_action_id
    ELSE IF /\ actions[a].action_type = "emergency_escalation"
            /\ actions[a].sequence_order > 1
         THEN FirstActionOf(actions[a].plan_id)
         ELSE NoId

C2_NoExecutionWithoutApproval ==
    \A a \in ActionIds :
        actions[a].status # "pending"
            => plans[actions[a].plan_id].approved_by # NoId

\* C3: retry_count never exceeds max_retries.
C3_RetryCountWithinMaxRetries ==
    \A a \in ActionIds : actions[a].retry_count <= actions[a].max_retries

\* C4: an action is in a terminal status after at most max_retries + 1
\* execution attempts, so no action has a further attempt.
C4_AttemptsWithinRetryBound ==
    \A a \in ActionIds : attempts[a] <= actions[a].max_retries + 1

\* A plan in flight: created, and not yet completed, rejected or failed.
InFlight(p) ==
    /\ ~plans[p].completed_at
    /\ plans[p].approval_status \notin {"rejected", "completed", "failed", "cancelled"}
    /\ sessions[plans[p].session_id].status \notin {"completed", "failed"}

\* C7: an individual has at most one plan in flight, and no session owns
\* more than one plan in flight.
C7_OnePlanInFlight ==
    /\ \A student \in Students :
          Cardinality({p \in PlanIds :
                          plans[p].student_id = student /\ InFlight(p)}) <= 1
    /\ \A s \in SessionIds :
          Cardinality({p \in PlanIds :
                          plans[p].session_id = s /\ InFlight(p)}) <= 1

\* The edges of the session state machine.
SessionChain ==
    {<<"observing", "planning">>, <<"planning", "waiting_approval">>,
     <<"waiting_approval", "executing">>, <<"executing", "verifying">>,
     <<"verifying", "completed">>, <<"verifying", "failed">>}

\* C8: every change of a session's status is one edge of the chain
\* OBSERVING -> PLANNING -> WAITING_APPROVAL -> EXECUTING -> VERIFYING ->
\* {COMPLETED | FAILED}.
C8_SessionStatusFollowsChain ==
    [][\A s \in SessionIds :
          sessions'[s].status # sessions[s].status
            => <<sessions[s].status, sessions'[s].status>> \in SessionChain]_vars


\* The statuses after which an action is not executed again.
TerminalActionStatus == {"completed", "failed", "skipped"}

\* The actions of a plan.
ActionsOf(p) == {a \in ActionIds : actions[a].plan_id = p}

\* C18: an execute_action invocation that returns leaves the action either
\* COMPLETED with retry_count unchanged (the delegate succeeded) or FAILED
\* with retry_count incremented by exactly one (the delegate raised or
\* returned an explicit failure).
C18_EveryFailureIncrementsRetryCount ==
    [][\A a \in ActionIds :
          running'[a] < running[a]
            => \/ /\ actions'[a].status = "completed"
                  /\ actions'[a].retry_count = actions[a].retry_count
               \/ /\ actions'[a].status = "failed"
                  /\ actions'[a].retry_count = actions[a].retry_count + 1]_vars

\* C19: an outcome is recorded and a session completed only when every
\* action of the verified plan is COMPLETED, FAILED or SKIPPED.
C19_VerificationOnlyAfterAllActionsTerminal ==
    [][\A p \in PlanIds :
          (\/ Len(outcomes') > Len(outcomes)
                /\ outcomes'[Len(outcomes')].plan_id = p
           \/ /\ sessions'[plans[p].session_id].status = "completed"
              /\ sessions[plans[p].session_id].status # "completed")
            => \A a \in ActionsOf(p) :
                  actions[a].status \in TerminalActionStatus]_vars

\* C20: once verify_outcome has run on a plan, the plan's session is
\* COMPLETED with completed_at set, and an outcome of the plan is recorded.
C20_VerificationCompletesSession ==
    \A p \in PlanIds :
        verifications[p] > 0
            => /\ sessions[plans[p].session_id].status = "completed"
               /\ sessions[plans[p].session_id].completed_at
               /\ \E o \in 1..Len(outcomes) : outcomes[o].plan_id = p

(***************************************************************************)
(* Properties of the aggregator.                                           *)
(***************************************************************************)
Vetoed == decision.source \in {"CoordinatorAgent", "IrreversibilityArbiter"}
            /\ decision.ethics_veto

GuardianOutput == decision.agent_outputs[Len(decision.agent_outputs)]

C6_VetoRoutesToHuman ==
    Vetoed => decision.decision \in {"ESCALATE_TO_HUMAN", "URGENT_HUMAN_ESCALATION"}

\* A posture selected by the threshold rule of CoordinatorAgent: on the
\* non-veto path of analyze_student, or by _make_decision itself.
Thresholded ==
    /\ decision.source \in {"CoordinatorAgent", "_make_decision"}
    /\ ~decision.ethics_veto

C10_HighUncertaintyNeverRelaxes ==
    (Thresholded /\ decision.uncertainty_level > 700
                 /\ decision.decision = "NO_ACTION")
        => _make_decision(decision.exact_risk[1], decision.exact_risk[2],
                          HighUncertainty) = "NO_ACTION"

(***************************************************************************)
(* Properties of the aggregation.                                          *)
(***************************************************************************)
\* The static weights of the four domain scorers, in hundredths.
DomainWeights ==
    [FinancialAgent |-> 25, AcademicAgent |-> 20, ResidentialAgent |-> 20,
     LanguageAgent |-> 15]

\* The assessments of the domain scorers among a Decision's agent_outputs.
DomainAssessments(outputs) ==
    SelectSeq(outputs, LAMBDA o : o.agent \in DOMAIN DomainWeights)

EffectiveWeights(assessments) ==
    [i \in 1..Len(assessments) |->
        DomainWeights[assessments[i].agent] * assessments[i].confidence]

WeightedRisks(assessments) ==
    [i \in 1..Len(assessments) |->
        assessments[i].risk * DomainWeights[assessments[i].agent]
            * assessments[i].confidence]

\* A non-veto Decision of analyze_student whose domain assessments carry
\* some effective weight.
Aggregated ==
    /\ decision.source = "CoordinatorAgent"
    /\ ~decision.ethics_veto
    /\ SeqSum(EffectiveWeights(DomainAssessments(decision.agent_outputs))) > 0

\* C11: on the non-veto path with total effective weight > 0, aggregate_risk
\* is the confidence-weighted mean of the risks of the four domain scorers
\* alone, and so lies between the least and the greatest of those risks.
C11_AggregateIsDomainWeightedMean ==
    Aggregated =>
        LET domain == DomainAssessments(decision.agent_outputs)
            num == decision.exact_risk[1]
            den == decision.exact_risk[2]
        IN /\ decision.aggregate_risk
                 = Round3(SeqSum(WeightedRisks(domain)),
                          SeqSum(EffectiveWeights(domain)))
           /\ \E i \in 1..Len(domain) : domain[i].risk * den <= num
           /\ \E i \in 1..Len(domain) : num <= domain[i].risk * den

\* Steps 2 and 5 of analyze_student: the aggregate risk, rounded as the
\* Decision reports it, that the pipeline computes from the domain outputs
\* of a run; the uncertainty scorer sees those outputs.
PipelineRisk(domain_outputs, event_count, days_since) ==
    LET uncertainty_output ==
            UncertaintyAgent_evaluate(event_count, days_since, domain_outputs)
        aggregate ==
            _calculate_aggregate_risk(domain_outputs \o <<uncertainty_output>>)
    IN Round3(aggregate[1], aggregate[2])

\* C12: a run that differs from this one only in that one domain scorer
\* reports a higher risk has an aggregate_risk that is not lower.
C12_AggregateMonotoneInDomainRisk ==
    (decision.source = "CoordinatorAgent" /\ ~decision.ethics_veto) =>
        \A i \in 1..Len(request.domain_outputs), higher \in DomainRisks :
            higher > request.domain_outputs[i].risk =>
                PipelineRisk([request.domain_outputs EXCEPT ![i].risk = higher],
                             request.event_count, request.days_since)
                    >= decision.aggregate_risk

\* A value that carries minority_opinions: a Decision of analyze_student,
\* or the list _identify_minority_opinions returns.
WithMinorityOpinions ==
    decision.source \in {"CoordinatorAgent", "_identify_minority_opinions"}

\* The assessments minority detection is about: every output but the
\* uncertainty scorer's and the ethics guardian's.
Assessed ==
    SelectSeq(decision.agent_outputs,
              LAMBDA o : o.agent \notin {"UncertaintyAgent", "EthicsAgent"})

\* n times the distance between the risk of the i-th assessment and the
\* mean of the n assessed risks.
Deviation(i) ==
    LET n == Len(Assessed)
        total == SeqSum([k \in 1..n |-> Assessed[k].risk])
        d == n * Assessed[i].risk - total
    IN IF d < 0 THEN -d ELSE d

DecidedOnEvents ==
    /\ decision.source \in {"CoordinatorAgent", "IrreversibilityArbiter"}
    /\ "events" \in DOMAIN request

\* C14: on an empty event list a pipeline returns posture NO_ACTION,
\* aggregate_risk 0.0 and ethics_veto false, and there is no session, plan
\* or action.
C14_NoEventsNoAction ==
    (DecidedOnEvents /\ request.events = <<>>) =>
        /\ decision.decision = "NO_ACTION"
        /\ decision.aggregate_risk = 0
        /\ ~decision.ethics_veto
        /\ sessions = <<>> /\ plans = <<>> /\ actions = <<>>

\* The events of the request that belong to the scorer's own types.
OwnEvents == OfTypes(request.events, OwnTypes[request.scorer])

\* C15: a scorer's risk and confidence are in [0, 1]; with no event of its
\* own types the risk is 0 and the confidence at least 0.7.
C15_ScorerRangeAndNoSignal ==
    decision.source = "scorer" =>
        /\ decision.output.risk \in 0..1000
        /\ decision.output.confidence \in 0..1000
        /\ OwnEvents = <<>> =>
              /\ decision.output.risk = 0
              /\ decision.output.confidence >= 700

DeferToHumanUncertainty == 700

\* The second criterion of the guardian's review, on the assessments it
\* is handed: the uncertainty scorer found the data too sparse, too stale
\* or too conflicting for an automated decision.
DataTooUncertain(agent_outputs) ==
    \E i \in 1..Len(agent_outputs) :
        /\ agent_outputs[i].agent = "UncertaintyAgent"
        /\ agent_outputs[i].risk > DeferToHumanUncertainty

\* A Decision of CoordinatorAgent made with the shipped guardian.
ReviewedByGuardian ==
    /\ decision.source = "CoordinatorAgent"
    /\ "provider" \in DOMAIN request

\* C17: when the data is too sparse or uncertain to act (one of the three
\* criteria), the guardian's output has veto = true.
C17_UncertainDataForcesVeto ==
    (ReviewedByGuardian /\ DataTooUncertain(decision.agent_outputs))
        => GuardianOutput.veto

(***************************************************************************)
(* Properties of plan creation, verification and execution.                *)
(***************************************************************************)
\* The last action of a plan: the one with the highest sequence_order.
LastActionOf(p) ==
    CHOOSE a \in ActionsOf(p) :
        \A b \in ActionsOf(p) : actions[b].sequence_order <= actions[a].sequence_order

\* C21: every plan ends with an EMERGENCY_ESCALATION action that has the
\* plan's highest sequence_order, and whose depends_on_action_id is the id
\* of the plan's first action whenever the plan has another action.
C21_EscalationDependsOnFirstAction ==
    \A p \in PlanIds :
        LET last == LastActionOf(p)
        IN /\ actions[last].action_type = "emergency_escalation"
           /\ \A b \in ActionsOf(p) \ {last} :
                 actions[b].sequence_order < actions[last].sequence_order
           /\ Cardinality(ActionsOf(p)) > 1
                 => actions[last].depends_on_action_id = FirstActionOf(p)

\* The step records an outcome that asks for a plan B.
RecordsPlanB ==
    /\ Len(outcomes') > Len(outcomes)
    /\ outcomes'[Len(outcomes')].requires_plan_b

\* The step creates a plan for an individual who already has one.
CreatesSuccessor ==
    /\ Len(plans') > Len(plans)
    /\ \E p \in PlanIds : plans[p].student_id = plans'[Len(plans')].student_id

\* C22: the verification that records an outcome with requires_plan_b also
\* creates a successor plan for the individual, built from another
\* hypothesis than the verified plan's; no other step creates a successor.
C22_PlanBCreatesSuccessor ==
    [][/\ RecordsPlanB =>
            LET outcome == outcomes'[Len(outcomes')]
            IN /\ Len(plans') = Len(plans) + 1
               /\ plans'[Len(plans')].student_id = outcome.student_id
               /\ plans'[Len(plans')].primary_cause
                      # plans[outcome.plan_id].primary_cause
       /\ CreatesSuccessor => RecordsPlanB]_vars

\* The success criteria a plan declares (success_metrics) that the
\* verification found met, given what in fact happened: the risk fell by
\* risk_reduction_target, the student engaged, the student responded.
CriteriaMet(outcome) ==
    BoolCount(outcome.risk_reduction >= RiskReductionTarget)
      + BoolCount(outcome.goals_achieved.engagement_improved)
      + BoolCount(outcome.responded_in_fact)

\* C23: success_rate is the fraction of the plan's declared success
\* criteria that are met, and requires_plan_b holds exactly when
\* success_rate < 0.5.
C23_SuccessRateAndPlanB ==
    \A o \in 1..Len(outcomes) :
        /\ outcomes[o].goals_met = CriteriaMet(outcomes[o])
        /\ outcomes[o].requires_plan_b <=> (2 * outcomes[o].goals_met < NumGoals)

\* The step is a commit of execute_action on action a.
Executes(a) == attempts'[a] > attempts[a] \/ running'[a] < running[a]

\* C24: a commit of execute_action on an action changes that action's
\* status and retry_count only: every other action, every session and
\* every plan is as before.
C24_ExecutionChangesOwnActionOnly ==
    [][\A a \in ActionIds :
          Executes(a) =>
            /\ \A b \in ActionIds \ {a} : actions'[b] = actions[b]
            /\ actions' = [actions EXCEPT ![a].status = actions'[a].status,
                                          ![a].retry_count = actions'[a].retry_count]
            /\ sessions' = sessions
            /\ plans' = plans]_vars

\* An action failed with its retries exhausted, next to a sibling that is
\* being executed and one that was not touched, in a session still open.
C24_Witness ==
    \E a \in ActionIds :
        /\ actions[a].status = "failed"
        /\ actions[a].retry_count > actions[a].max_retries
        /\ \E b \in ActionsOf(actions[a].plan_id) \ {a} :
              actions[b].status = "executing" /\ running[b] > 0
        /\ \E c \in ActionsOf(actions[a].plan_id) \ {a} :
              actions[c].status = "pending"
        /\ sessions[plans[actions[a].plan_id].session_id].status = "planning"

OutcomesOf(p) == {o \in 1..Len(outcomes) : outcomes[o].plan_id = p}

\* C26: each plan has at most one outcome record: none before a
\* verify_outcome call on it returned (which sets completed_at) and exactly
\* one after, however often verify_outcome is called.
C26_OneOutcomePerPlan ==
    \A p \in PlanIds :
        Cardinality(OutcomesOf(p)) = IF plans[p].completed_at THEN 1 ELSE 0

(***************************************************************************)
(* Terminal statuses of an action.                                         *)
(***************************************************************************)
\* C27: a COMPLETED action stays COMPLETED: no later execute_action call
\* moves it back to EXECUTING or invokes its delegate again.
C27_CompletedIsAbsorbing ==
    [][\A a \in ActionIds :
          actions[a].status = "completed"
              => /\ actions'[a].status = "completed"
                 /\ attempts'[a] = attempts[a]]_vars

(***************************************************************************)
(* The global coordinator.                                                 *)
(***************************************************************************)
Returned == {c \in Callers : pc[c] = "returned"}

\* C28: with the startup thread and the request handlers calling
\* get_coordinator_singleton concurrently, CoordinatorAgentML is
\* constructed at most once and every caller gets the same instance.
C28_CoordinatorConstructedOnce ==
    /\ constructed <= 1
    /\ \A c, d \in Returned : coordinator[c] = coordinator[d]

(***************************************************************************)
(* The counselor chat.                                                     *)
(***************************************************************************)
KnownSessions == DOMAIN session_metadata

\* A student endpoint connects with the id of a session that was there
\* before and has no websocket now.
Reconnects(session_id) ==
    /\ session_id \in KnownSessions \ active_sessions
    /\ chat_call'.op = "connect_student"
    /\ chat_call'.session_id = session_id

\* C29: a session outlives its websocket: after the student disconnects and
\* reconnects with the same session_id, the message history and the
\* metadata (assigned counselor, revealed identity) are what they were.
C29_SessionSurvivesReconnect ==
    [][\A s \in KnownSessions :
          Reconnects(s) => /\ message_history'[s] = message_history[s]
                           /\ session_metadata'[s] = session_metadata[s]]_vars

\* The step is handle_consent_response(s, True, a student id).
ConsentsWithId(s) ==
    /\ chat_call'.op = "handle_consent_response"
    /\ chat_call'.session_id = s
    /\ chat_call'.consent_given
    /\ chat_call'.student_id # Unset

\* C30: is_anonymous is true exactly when student_id is unset; it becomes
\* false, and a student id is stored or sent to a counselor, only in
\* handle_consent_response with consent_given true and a student_id, which
\* stores and sends that id and no other.
C30_IdentityOnlyByConsent ==
    /\ [](\A s \in KnownSessions :
            session_metadata[s].is_anonymous
                <=> session_metadata[s].student_id = Unset)
    /\ [][/\ \A s \in DOMAIN session_metadata' :
               LET before == IF s \in KnownSessions THEN session_metadata[s]
                             ELSE NewMetadata
                   after == session_metadata'[s]
               IN /\ ConsentsWithId(s)
                       => /\ ~after.is_anonymous
                          /\ after.student_id = chat_call'.student_id
                          /\ chat_call'.identity_sent
                                \in {Unset, chat_call'.student_id}
                  /\ ~ConsentsWithId(s)
                       => /\ after.is_anonymous \/ ~before.is_anonymous
                          /\ after.student_id \in {Unset, before.student_id}
          /\ (\A s \in DOMAIN session_metadata' : ~ConsentsWithId(s))
               => chat_call'.identity_sent = Unset]_vars

\* A session whose student consented while a counselor was assigned and
\* connected, and another response of that student came after.
C30_Witness ==
    \E s \in KnownSessions :
        /\ ~session_metadata[s].is_anonymous
        /\ session_metadata[s].student_id # Unset
        /\ session_metadata[s].assigned_counselor \in active_counselors
        /\ chat_call.op = "handle_consent_response"
        /\ chat_call.session_id = s
        /\ ~chat_call.consent_given

====
